---------------------------- MODULE Spec2Model ----------------------------
(***************************************************************************)
(* A model of cubescraper's normalisation pipeline                         *)
(* (add_cubes_to_database.py): the filter, the attribute extractors, the   *)
(* row expander, the deduplicator, the Supabase writer and main.           *)
(*                                                                         *)
(* Python strings are sequences of one-character strings, so that          *)
(* str.lower, the `in` substring test, str.split, str.replace and the      *)
(* regular expressions are computed character by character.  A character   *)
(* outside printable ASCII is written "U+XXXX".  A dict is a TLA+ record   *)
(* whose DOMAIN holds the keys that are present.  Millimetre values are    *)
(* kept in tenths of a millimetre (56.5 is 565), which is exact for every  *)
(* value float() can be given by MM_PATTERN's capture.                     *)
(***************************************************************************)
EXTENDS Integers, Sequences, FiniteSets, TLC

VARIABLES
    dir,         \* STORES_DIR: file name -> the listings of that *_products.json
    pc,          \* where main, or the function run on its own, stands
    run,         \* how many times main has been started
    files,       \* main's `files`: the sorted file names
    fi,          \* index in `files` of the file being read (1-based)
    pi,          \* index in the file of the next listing (1-based)
    all_rows,    \* main's `all_rows`
    candidates,  \* the value of all_rows handed to deduplicate_rows
    chunk,       \* write_rows_to_supabase's `chunk`
    start,       \* write_rows_to_supabase's loop variable `start`
    calls,       \* the batches of the upsert calls issued so far, in order
    table,       \* the cube_models table: its rows, in insertion order
    dump,        \* the content of OUTPUT_FILE
    prev,        \* what the previous run of main left behind
    prod,        \* the listing handed to the function run on its own
    result,      \* its return value
    server,      \* the store's answers to the page requests, by page number
    page_ref,    \* fetch_all_products's page_ref[0]
    products,    \* fetch_all_products's `products`
    requested,   \* the page numbers requested so far, in order
    stop_event,  \* whether the spinner's threading.Event is set
    spin,        \* where the spinner thread stands
    shown        \* the page number the spinner wrote last (0: none yet)

\* what fetch_all_products and its spinner read and write
fetchVars == <<server, page_ref, products, requested, stop_event, spin, shown>>

vars == <<dir, pc, run, files, fi, pi, all_rows, candidates, chunk, start,
          calls, table, dump, prev, prod, result, fetchVars>>

\* no fetch is under way
NoFetch ==
    /\ server = <<>>
    /\ page_ref = 1
    /\ products = <<>>
    /\ requested = <<>>
    /\ stop_event = FALSE
    /\ spin = "none"
    /\ shown = 0

-----------------------------------------------------------------------------
(* Bounds of the model.                                                    *)

MaxListings == 3   \* listings over all source files
MaxRuns == 2       \* runs of main on the same source files
MaxTags == 2       \* tags of a listing handed to normalize_product
MaxVariants == 2   \* variants of a listing handed to normalize_product
MaxRows == 4       \* rows handed to write_rows_to_supabase on its own
MaxChunk == 3      \* chunk sizes tried for write_rows_to_supabase
MaxPages == 3      \* pages the store answers with something else than no products

-----------------------------------------------------------------------------
(* Python's str and dict operations.                                       *)

Get(d, key, default) == IF key \in DOMAIN d THEN d[key] ELSE default

UpperToLower ==
    [c \in {"A", "B", "C", "D", "E", "F", "G", "H", "I", "J", "K", "L", "M",
            "N", "O", "P", "Q", "R", "S", "T", "U", "V", "W", "X", "Y", "Z"} |->
        CASE c = "A" -> "a" [] c = "B" -> "b" [] c = "C" -> "c" [] c = "D" -> "d"
          [] c = "E" -> "e" [] c = "F" -> "f" [] c = "G" -> "g" [] c = "H" -> "h"
          [] c = "I" -> "i" [] c = "J" -> "j" [] c = "K" -> "k" [] c = "L" -> "l"
          [] c = "M" -> "m" [] c = "N" -> "n" [] c = "O" -> "o" [] c = "P" -> "p"
          [] c = "Q" -> "q" [] c = "R" -> "r" [] c = "S" -> "s" [] c = "T" -> "t"
          [] c = "U" -> "u" [] c = "V" -> "v" [] c = "W" -> "w" [] c = "X" -> "x"
          [] c = "Y" -> "y" [] c = "Z" -> "z"]

LowerChar(c) == IF c \in DOMAIN UpperToLower THEN UpperToLower[c] ELSE c

\* str.lower()
Lower(s) == [i \in 1..Len(s) |-> LowerChar(s[i])]

Digits == {"0", "1", "2", "3", "4", "5", "6", "7", "8", "9"}

DigitValue(c) ==
    CASE c = "0" -> 0 [] c = "1" -> 1 [] c = "2" -> 2 [] c = "3" -> 3
      [] c = "4" -> 4 [] c = "5" -> 5 [] c = "6" -> 6 [] c = "7" -> 7
      [] c = "8" -> 8 [] c = "9" -> 9

LowerLetters == {UpperToLower[c] : c \in DOMAIN UpperToLower}

\* \s of a str pattern: Unicode whitespace (U+00A0 is what &nbsp; unescapes to)
IsSpace(c) == c \in {" ", "\t", "\n", "U+00A0"}

\* \w of a str pattern
IsWord(c) == c \in Digits \cup LowerLetters \cup DOMAIN UpperToLower \cup {"_"}

\* needle in hay
Contains(hay, needle) ==
    \E i \in 0..(Len(hay) - Len(needle)) :
        SubSeq(hay, i + 1, i + Len(needle)) = needle

\* whether s[i..] starts with t
StartsAt(s, i, t) ==
    /\ i + Len(t) - 1 <= Len(s)
    /\ SubSeq(s, i, i + Len(t) - 1) = t

RECURSIVE Join(_, _)
\* sep.join(parts)
Join(sep, parts) ==
    IF parts = <<>> THEN <<>>
    ELSE IF Len(parts) = 1 THEN parts[1]
    ELSE parts[1] \o sep \o Join(sep, Tail(parts))

RECURSIVE LStrip(_)
LStrip(s) == IF s # <<>> /\ IsSpace(s[1]) THEN LStrip(Tail(s)) ELSE s

RECURSIVE RStrip(_)
RStrip(s) ==
    IF s # <<>> /\ IsSpace(s[Len(s)]) THEN RStrip(SubSeq(s, 1, Len(s) - 1)) ELSE s

\* str.strip()
Strip(s) == RStrip(LStrip(s))

RECURSIVE Remove(_, _)
\* s.replace(old, ""): every occurrence of old, left to right, is dropped;
\* with old empty the string comes back as it is
Remove(s, old) ==
    IF old = <<>> \/ s = <<>> THEN s
    ELSE IF StartsAt(s, 1, old) THEN Remove(SubSeq(s, Len(old) + 1, Len(s)), old)
    ELSE <<s[1]>> \o Remove(Tail(s), old)

RECURSIVE SplitWords(_, _)
\* s.split(): the maximal runs of non-whitespace; cur is the run being read
SplitWords(s, cur) ==
    IF s = <<>> THEN (IF cur = <<>> THEN <<>> ELSE <<cur>>)
    ELSE IF IsSpace(s[1])
         THEN (IF cur = <<>> THEN <<>> ELSE <<cur>>) \o SplitWords(Tail(s), <<>>)
         ELSE SplitWords(Tail(s), Append(cur, s[1]))

Split(s) == SplitWords(s, <<>>)

\* s.split(sep, 1)[0]: what precedes the first occurrence of sep
BeforeFirst(s, sep) ==
    LET hits == {i \in 1..Len(s) : StartsAt(s, i, sep)}
    IN  IF hits = {} THEN s
        ELSE SubSeq(s, 1, (CHOOSE i \in hits : \A j \in hits : i <= j) - 1)

-----------------------------------------------------------------------------
(* Fixed configuration sets.                                               *)

ILLEGAL_CUBE_TYPES ==
  {
    <<"S", "m", "a", "r", "t", " ", "C", "u", "b", "e">>,
    <<"B", "l", "u", "e", "t", "o", "o", "t", "h", " ", "C", "u", "b", "e">>,
    <<"M", "o", "t", "o", "r", "i", "z", "e", "d", " ", "C", "u", "b", "e">>,
    <<"R", "o", "b", "o", "t", " ", "C", "u", "b", "e">>,
    <<"T", "r", "a", "n", "s", "p", "a", "r", "e", "n", "t", " ", "C", "u", "b", "e">>,
    <<"C", "l", "e", "a", "r", " ", "C", "u", "b", "e">>,
    <<"I", "c", "e", " ", "C", "u", "b", "e">>,
    <<"M", "i", "r", "r", "o", "r", " ", "C", "u", "b", "e">>,
    <<"G", "h", "o", "s", "t", " ", "C", "u", "b", "e">>,
    <<"A", "x", "i", "s", " ", "C", "u", "b", "e">>,
    <<"F", "i", "s", "h", "e", "r", " ", "C", "u", "b", "e">>,
    <<"B", "a", "r", "r", "e", "l", " ", "C", "u", "b", "e">>,
    <<"C", "u", "b", "o", "i", "d">>,
    <<"2", "U+00D7", "2", "U+00D7", "3">>,
    <<"3", "U+00D7", "3", "U+00D7", "2">>,
    <<"3", "U+00D7", "3", "U+00D7", "4">>,
    <<"3", "U+00D7", "3", "U+00D7", "5">>,
    <<"B", "a", "n", "d", "a", "g", "e", "d", " ", "C", "u", "b", "e">>,
    <<"M", "i", "x", "u", "p", " ", "C", "u", "b", "e">>,
    <<"M", "a", "s", "t", "e", "r", "m", "o", "r", "p", "h", "i", "x">>,
    <<"P", "y", "r", "a", "m", "o", "r", "p", "h", "i", "x">>,
    <<"M", "a", "s", "t", "e", "r", " ", "P", "y", "r", "a", "m", "i", "n", "x">>,
    <<"8", "U+00D7", "8", " ", "C", "u", "b", "e">>,
    <<"9", "U+00D7", "9", " ", "C", "u", "b", "e">>,
    <<"1", "0", "U+00D7", "1", "0", " ", "C", "u", "b", "e">>,
    <<"1", "1", "U+00D7", "1", "1", " ", "C", "u", "b", "e">>,
    <<"1", "2", "U+00D7", "1", "2", " ", "C", "u", "b", "e">>,
    <<"1", "3", "U+00D7", "1", "3", " ", "C", "u", "b", "e">>,
    <<"1", "5", "U+00D7", "1", "5", " ", "C", "u", "b", "e">>,
    <<"1", "7", "U+00D7", "1", "7", " ", "C", "u", "b", "e">>,
    <<"1", "8", "U+00D7", "1", "8", " ", "C", "u", "b", "e">>,
    <<"K", "i", "l", "o", "m", "i", "n", "x">>,
    <<"G", "i", "g", "a", "m", "i", "n", "x">>,
    <<"T", "e", "r", "a", "m", "i", "n", "x">>,
    <<"P", "e", "t", "a", "m", "i", "n", "x">>,
    <<"S", "q", "u", "a", "r", "e", "-", "2">>,
    <<"C", "u", "b", "e", "d", "r", "o", "n">>,
    <<"I", "v", "y", " ", "C", "u", "b", "e">>,
    <<"G", "e", "a", "r", " ", "C", "u", "b", "e">>,
    <<"H", "e", "l", "i", "c", "o", "p", "t", "e", "r", " ", "C", "u", "b", "e">>,
    <<"R", "e", "d", "i", " ", "C", "u", "b", "e">>,
    <<"S", "u", "d", "o", "k", "u", "b", "e">>,
    <<"F", "l", "o", "p", "p", "y", " ", "C", "u", "b", "e">>,
    <<"I", "n", "f", "i", "n", "i", "t", "y", " ", "C", "u", "b", "e">>,
    <<"S", "i", "a", "m", "e", "s", "e", " ", "C", "u", "b", "e">>
  }

ILLEGAL_TAGS ==
  {
    <<"s", "m", "a", "r", "t">>,
    <<"b", "l", "u", "e", "t", "o", "o", "t", "h">>,
    <<"w", "i", "f", "i">>,
    <<"w", "i", "-", "f", "i">>,
    <<"w", "i", "r", "e", "l", "e", "s", "s">>,
    <<"a", "p", "p">>,
    <<"a", "p", "p", "-", "e", "n", "a", "b", "l", "e", "d">>,
    <<"c", "o", "n", "n", "e", "c", "t", "e", "d">>,
    <<"c", "l", "o", "u", "d">>,
    <<"i", "o", "t">>,
    <<"s", "e", "n", "s", "o", "r">>,
    <<"s", "e", "n", "s", "o", "r", "s">>,
    <<"g", "y", "r", "o", "s", "c", "o", "p", "e">>,
    <<"g", "y", "r", "o">>,
    <<"a", "c", "c", "e", "l", "e", "r", "o", "m", "e", "t", "e", "r">>,
    <<"i", "m", "u">>,
    <<"m", "a", "g", "n", "e", "t", "o", "m", "e", "t", "e", "r">>,
    <<"c", "p", "u">>,
    <<"c", "h", "i", "p">>,
    <<"p", "c", "b">>,
    <<"d", "i", "s", "p", "l", "a", "y">>,
    <<"s", "c", "r", "e", "e", "n">>,
    <<"l", "c", "d">>,
    <<"o", "l", "e", "d">>,
    <<"l", "e", "d">>,
    <<"l", "i", "g", "h", "t">>,
    <<"l", "i", "g", "h", "t", "s">>,
    <<"r", "g", "b">>,
    <<"n", "e", "o", "n">>,
    <<"m", "a", "t", "r", "i", "x">>,
    <<"b", "a", "t", "t", "e", "r", "y">>,
    <<"r", "e", "c", "h", "a", "r", "g", "e", "a", "b", "l", "e">>,
    <<"u", "s", "b">>,
    <<"t", "y", "p", "e", "-", "c">>,
    <<"c", "h", "a", "r", "g", "i", "n", "g">>,
    <<"l", "i", "t", "h", "i", "u", "m">>,
    <<"l", "i", "-", "i", "o", "n">>,
    <<"c", "h", "a", "r", "g", "e", "r">>,
    <<"p", "o", "w", "e", "r">>,
    <<"m", "o", "t", "o", "r">>,
    <<"m", "o", "t", "o", "r", "i", "z", "e", "d">>,
    <<"a", "u", "t", "o">>,
    <<"a", "u", "t", "o", "-", "t", "u", "r", "n">>,
    <<"a", "u", "t", "o", "s", "o", "l", "v", "e">>,
    <<"s", "e", "l", "f", "-", "t", "u", "r", "n", "i", "n", "g">>,
    <<"s", "e", "l", "f", "-", "s", "o", "l", "v", "i", "n", "g">>,
    <<"r", "o", "b", "o", "t", "i", "c">>,
    <<"r", "o", "b", "o", "t">>,
    <<"s", "e", "r", "v", "o">>,
    <<"c", "a", "m", "e", "r", "a">>,
    <<"m", "i", "c", "r", "o", "p", "h", "o", "n", "e">>,
    <<"s", "p", "e", "a", "k", "e", "r">>,
    <<"v", "o", "i", "c", "e">>,
    <<"s", "o", "u", "n", "d">>,
    <<"b", "u", "z", "z", "e", "r">>,
    <<"t", "r", "a", "n", "s", "p", "a", "r", "e", "n", "t">>,
    <<"c", "l", "e", "a", "r">>,
    <<"s", "e", "e", "-", "t", "h", "r", "o", "u", "g", "h">>,
    <<"c", "r", "y", "s", "t", "a", "l">>,
    <<"a", "c", "r", "y", "l", "i", "c">>,
    <<"g", "l", "a", "s", "s">>,
    <<"t", "i", "m", "e", "r">>,
    <<"h", "u", "d">>,
    <<"p", "r", "o", "j", "e", "c", "t", "o", "r">>,
    <<"h", "o", "l", "o", "g", "r", "a", "m">>
  }

SKIP_PRODUCT_TYPES ==
  {
    <<"a", "c", "c", "e", "s", "s", "o", "r", "i", "e", "s">>,
    <<"a", "c", "c", "e", "s", "s", "o", "r", "i", "e", "s", " ", "b", "u", "n", "d", "l", "e">>,
    <<"a", "p", "p", "a", "r", "e", "l", " ", "-", " ", "c", "l", "e", "a", "r", "a", "n", "c", "e">>,
    <<"a", "f", "t", "e", "r", " ", "s", "a", "l", "e">>,
    <<"b", "e", "a", "n", "i", "e">>,
    <<"b", "l", "a", "n", "k", "e", "t">>,
    <<"b", "o", "o", "k">>,
    <<"b", "u", "n", "d", "l", "e">>,
    <<"b", "u", "r", "r", " ", "p", "u", "z", "z", "l", "e">>,
    <<"c", "h", "r", "i", "s", "t", "m", "a", "s">>,
    <<"c", "o", "a", "c", "h", "i", "n", "g", " ", "s", "e", "r", "v", "i", "c", "e">>,
    <<"c", "o", "m", "p", "e", "t", "i", "t", "i", "o", "n", "s">>,
    <<"c", "u", "b", "e", " ", "c", "o", "v", "e", "r">>,
    <<"d", "i", "s", "p", "l", "a", "y", " ", "c", "a", "s", "e">>,
    <<"d", "i", "s", "p", "l", "a", "y", " ", "t", "i", "m", "e">>,
    <<"d", "i", "e", "c", "a", "s", "t", " ", "m", "o", "d", "e", "l">>,
    <<"d", "i", "y">>,
    <<"d", "i", "y", " ", "k", "i", "t", "s">>,
    <<"e", "d", "u", "c", "a", "t", "i", "o", "n", "a", "l", " ", "t", "o", "y">>,
    <<"f", "l", "a", "s", "h", "c", "a", "r", "d", "s">>,
    <<"f", "i", "d", "g", "e", "t">>,
    <<"f", "i", "d", "g", "e", "t", " ", "c", "u", "b", "e">>,
    <<"h", "a", "t">>,
    <<"h", "o", "o", "d", "i", "e">>,
    <<"h", "a", "r", "d", "w", "a", "r", "e">>,
    <<"h", "o", "b", "b", "y", " ", "t", "o", "o", "l", "s">>,
    <<"j", "a", "c", "k", "e", "t">>,
    <<"j", "i", "g", "s", "a", "w", " ", "p", "u", "z", "z", "l", "e">>,
    <<"l", "a", "n", "y", "a", "r", "d">>,
    <<"l", "e", "a", "r", "n", "i", "n", "g">>,
    <<"l", "u", "b", "e">>,
    <<"l", "i", "v", "e", " ", "e", "v", "e", "n", "t", "s">>,
    <<"l", "u", "c", "k", "y", " ", "d", "i", "p">>,
    <<"m", "a", "t">>,
    <<"m", "o", "d", "e", "l", " ", "k", "i", "t">>,
    <<"m", "u", "g">>,
    <<"n", "a", "n", "o", "b", "l", "o", "c", "k">>,
    <<"o", "f", "f", "i", "c", "e">>,
    <<"o", "t", "h", "e", "r">>,
    <<"p", "i", "l", "l", "U+200B", "o", "w">>,
    <<"p", "l", "a", "s", "t", "i", "c", " ", "b", "l", "a", "d", "e">>,
    <<"p", "l", "u", "s", "h", "i", "e">>,
    <<"r", "e", "m", "o", "t", "e", " ", "c", "o", "n", "t", "r", "o", "l", " ", "c", "a", "r">>,
    <<"r", "e", "f", "u", "r", "b", "i", "s", "h", "e", "d">>,
    <<"s", "y", "r", "i", "n", "g", "e">>,
    <<"s", "t", "i", "c", "k", "e", "r", " ", "s", "e", "t", "s">>,
    <<"s", "t", "o", "r", "a", "g", "e", " ", "b", "a", "g">>,
    <<"s", "t", "o", "r", "a", "g", "e", " ", "b", "o", "x">>,
    <<"s", "t", "a", "n", "d">>,
    <<"s", "h", "i", "r", "t">>,
    <<"t", "-", "s", "h", "i", "r", "t">>,
    <<"t", "i", "m", "e", "r">>,
    <<"t", "i", "m", "e", "r", " ", "a", "c", "c", "e", "s", "s", "o", "r", "i", "e", "s">>,
    <<"t", "i", "m", "e", "r", " ", "s", "k", "i", "n">>,
    <<"t", "o", "o", "l", "s", " ", "&", " ", "a", "c", "c", "e", "s", "s", "o", "r", "i", "e", "s">>,
    <<"t", "r", "a", "i", "n", "i", "n", "g", " ", "c", "o", "u", "r", "s", "e", "s">>,
    <<"t", "o", "y">>,
    <<"w", "a", "t", "e", "r", " ", "b", "o", "t", "t", "l", "e">>,
    <<"w", "o", "o", "d", "e", "n", " ", "b", "u", "i", "l", "d", "i", "n", "g", " ", "b", "l", "o", "c", "k">>,
    <<"w", "o", "o", "d", "e", "n", " ", "l", "e", "a", "r", "n", "i", "n", "g", " ", "b", "o", "a", "r", "d", " ", "t", "o", "y">>,
    <<"w", "o", "o", "d", "e", "n", " ", "p", "u", "z", "z", "l", "e">>,
    <<"h", "a", "l", "l", "o", "w", "e", "e", "n">>,
    <<"d", "i", "g", "i", "t", "a", "l">>,
    <<"d", "o", "w", "n", "l", "o", "a", "d">>,
    <<"t", "e", "s", "t">>,
    <<"O", "P", "T", "I", "O", "N", "S", "_", "H", "I", "D", "D", "E", "N", "_", "P", "R", "O", "D", "U", "C", "T">>,
    <<"g", "l", "o", "b", "o">>,
    <<"S", "l", "i", "d", "i", "n", "g">>,
    <<"P", "i", "l", "l", "o", "w">>,
    <<"s", "n", "a", "k", "e">>,
    <<"p", "i", "n">>,
    <<"b", "a", "d", "g", "e">>,
    <<"m", "o", "u", "s", "e">>,
    <<"p", "a", "d">>,
    <<"L", "o", "c", "k", "i", "n", "g">>,
    <<"K", "l", "o", "t", "s", "k", "i">>,
    <<"B", "a", "l", "l">>,
    <<"K", "r", "e", "a", "t", "i", "v", "i", "t", "y">>,
    <<"L", "M", "S">>,
    <<"H", "a", "n", "a", "y", "a", "m", "a">>,
    <<"J", "i", "b", "b", "i", "t", "z">>,
    <<"K", "e", "y", "c", "h", "a", "i", "n">>,
    <<"L", "u", "b", "r", "i", "c", "a", "n", "t">>,
    <<"L", "u", "b", "r", "i", "c", "a", "n", "t", "s", "e", "t">>,
    <<"G", "a", "m", "e">>,
    <<"m", "o", "d">>,
    <<"s", "e", "r", "v", "i", "c", "e">>,
    <<"s", "t", "i", "c", "k", "e", "r">>,
    <<"T", "e", "t", "r", "a">>,
    <<"L", "i", "f", "e", "s", "t", "y", "l", "e">>,
    <<"F", "r", "e", "e", "b", "i", "e">>,
    <<"D", "e", "c", "a", "l", "s">>,
    <<"P", "o", "u", "c", "h">>,
    <<"L", "o", "g", "o">>,
    <<"b", "l", "i", "n", "d", "f", "o", "l", "d">>,
    <<"g", "i", "f", "t">>
  }

\* DEFAULT_SIZE_MM, in tenths of a millimetre, keyed by the two digits
DEFAULT_SIZE_MM ==
    [k \in {<<"2", "x", "2">>, <<"3", "x", "3">>, <<"4", "x", "4">>,
            <<"5", "x", "5">>, <<"6", "x", "6">>, <<"7", "x", "7">>} |->
        CASE k[1] = "2" -> 500 [] k[1] = "3" -> 560 [] k[1] = "4" -> 600
          [] k[1] = "5" -> 620 [] k[1] = "6" -> 650 [] k[1] = "7" -> 690]

\* NOISE_WORDS = {...}: a set whose only member is Ellipsis, so no str is in it
NOISE_WORDS == {<<"Ellipsis">>}

-----------------------------------------------------------------------------
(* The filter.                                                             *)

\* should_skip with a fault: product_type is not lower-cased
should_skip_cased(p) ==
    LET product_type == Get(p, "product_type", <<>>)
    IN  \E skip \in SKIP_PRODUCT_TYPES : Contains(product_type, Lower(skip))

should_skip(p) ==
    LET product_type == Lower(Get(p, "product_type", <<>>))
    IN  \E skip \in SKIP_PRODUCT_TYPES : Contains(product_type, Lower(skip))

-----------------------------------------------------------------------------
(* The size detector.                                                      *)

\* html.unescape on a description whose character references are single
\* elements of the sequence
UnescapeChar(c) ==
    CASE c = "&nbsp;" -> "U+00A0"
      [] c = "&amp;" -> "&"
      [] c = "&#109;" -> "m"
      [] OTHER -> c

unescape(s) == [i \in 1..Len(s) |-> UnescapeChar(s[i])]

RECURSIVE SkipSpaces(_, _)
\* \s*: the first index from j on that holds no whitespace
SkipSpaces(s, j) ==
    IF j <= Len(s) /\ IsSpace(s[j]) THEN SkipSpaces(s, j + 1) ELSE j

\* \s*mm from index j on, case-insensitively
MMTail(s, j) ==
    LET k == SkipSpaces(s, j)
    IN  /\ k + 1 <= Len(s)
        /\ LowerChar(s[k]) = "m"
        /\ LowerChar(s[k + 1]) = "m"

\* \d{2}\.\d at index i, followed by \s*mm
MMFractionAt(s, i) ==
    /\ i + 3 <= Len(s)
    /\ s[i] \in Digits /\ s[i + 1] \in Digits
    /\ s[i + 2] = "." /\ s[i + 3] \in Digits
    /\ MMTail(s, i + 4)

\* \d{2} at index i, followed by \s*mm
MMWholeAt(s, i) ==
    /\ i + 1 <= Len(s)
    /\ s[i] \in Digits /\ s[i + 1] \in Digits
    /\ MMTail(s, i + 2)

RECURSIVE MMSearch(_, _)
\* MM_PATTERN.search: the index of the leftmost match from i on, 0 for None
MMSearch(s, i) ==
    IF i > Len(s) THEN 0
    ELSE IF MMFractionAt(s, i) \/ MMWholeAt(s, i) THEN i
    ELSE MMSearch(s, i + 1)

\* float(m.group(1)) for the match at index i, in tenths
MMGroupValue(s, i) ==
    100 * DigitValue(s[i]) + 10 * DigitValue(s[i + 1])
        + (IF MMFractionAt(s, i) THEN DigitValue(s[i + 3]) ELSE 0)

\* \b(\d)[x×](\d)\b at index i, case-insensitively
NXNAt(s, i) ==
    /\ i + 2 <= Len(s)
    /\ s[i] \in Digits
    /\ s[i + 1] \in {"x", "X", "U+00D7"}
    /\ s[i + 2] \in Digits
    /\ (i = 1 \/ ~IsWord(s[i - 1]))
    /\ (i + 2 = Len(s) \/ ~IsWord(s[i + 3]))

RECURSIVE NXNSearch(_, _)
\* NXN_PATTERN.search: the index of the leftmost match from i on, 0 for None
NXNSearch(s, i) ==
    IF i > Len(s) THEN 0
    ELSE IF NXNAt(s, i) THEN i
    ELSE NXNSearch(s, i + 1)

\* the text detect_size_mm searches for a measurement
SizeText(p) ==
    Lower(Join(<<" ">>,
               <<Get(p, "title", <<>>), unescape(Get(p, "body_html", <<>>))>>
                 \o Get(p, "tags", <<>>)
                 \o [i \in 1..Len(Get(p, "variants", <<>>)) |->
                        Get(Get(p, "variants", <<>>)[i], "title", <<>>)]))

detect_size_mm(p) ==
    LET text  == SizeText(p)
        m     == MMSearch(text, 1)
        title == Get(p, "title", <<>>)
        n     == NXNSearch(title, 1)
        key   == <<title[n], "x", title[n + 2]>>
    IN  IF m # 0 THEN MMGroupValue(text, m)
        ELSE IF n # 0
             THEN (IF key \in DOMAIN DEFAULT_SIZE_MM THEN DEFAULT_SIZE_MM[key] ELSE 560)
             ELSE 560

-----------------------------------------------------------------------------
(* The series extractor and the slug.                                      *)

RECURSIVE StripParens(_)
\* re.sub(r"\(.*?\)", "", s): each "(" with a ")" after it on the same line is
\* dropped up to the first such ")"
StripParens(s) ==
    IF s = <<>> THEN <<>>
    ELSE LET closes == {j \in 2..Len(s) :
                            /\ s[j] = ")"
                            /\ \A k \in 2..(j - 1) : s[k] # ")" /\ s[k] # "\n"}
         IN  IF s[1] = "(" /\ closes # {}
             THEN StripParens(SubSeq(s, (CHOOSE j \in closes : TRUE) + 1, Len(s)))
             ELSE <<s[1]>> \o StripParens(Tail(s))

RECURSIVE AllDigitsFrom(_, _)
\* the first index from j on that holds no digit
AllDigitsFrom(s, j) ==
    IF j <= Len(s) /\ s[j] \in Digits THEN AllDigitsFrom(s, j + 1) ELSE j

\* SIZE_PATTERN.match(w): ^\d+x\d+
SizeWord(w) ==
    LET j == AllDigitsFrom(w, 1)
    IN  /\ j > 1
        /\ j + 1 <= Len(w)
        /\ LowerChar(w[j]) = "x"
        /\ w[j + 1] \in Digits

\* VERSION_PATTERN.match(w): ^(v\d+|pro|plus|m)$
VersionWord(w) ==
    LET lw == Lower(w)
    IN  \/ lw \in {<<"p", "r", "o">>, <<"p", "l", "u", "s">>, <<"m">>}
        \/ /\ Len(lw) >= 2
           /\ lw[1] = "v"
           /\ AllDigitsFrom(lw, 2) = Len(lw) + 1

RECURSIVE SeriesWords(_)
\* the words kept before the loop's break
SeriesWords(words) ==
    IF words = <<>> THEN <<>>
    ELSE LET lw == Lower(words[1])
         IN  IF SizeWord(lw) \/ VersionWord(lw) \/ lw \in NOISE_WORDS
             THEN <<>>
             ELSE <<words[1]>> \o SeriesWords(Tail(words))

extract_series_name(title) ==
    LET clean == BeforeFirst(StripParens(title), <<" ", "-">>)
    IN  Strip(Join(<<" ">>, SeriesWords(Split(clean))))

RECURSIVE CollapseDashes(_)
\* -{2,} becomes -
CollapseDashes(s) ==
    IF Len(s) < 2 THEN s
    ELSE IF s[1] = "-" /\ s[2] = "-" THEN CollapseDashes(Tail(s))
    ELSE <<s[1]>> \o CollapseDashes(Tail(s))

RECURSIVE StripDashes(_)
StripDashes(s) ==
    IF s # <<>> /\ s[1] = "-" THEN StripDashes(Tail(s))
    ELSE IF s # <<>> /\ s[Len(s)] = "-" THEN StripDashes(SubSeq(s, 1, Len(s) - 1))
    ELSE s

\* python-slugify's slugify(text) with its defaults: transliterate to ASCII,
\* lower-case, turn every run outside [-a-z0-9] into one "-", strip the "-"
slugify(text) ==
    LET ascii == [i \in 1..Len(text) |->
                     IF text[i] = "U+00D7" THEN "x" ELSE LowerChar(text[i])]
        kept  == [i \in 1..Len(ascii) |->
                     IF ascii[i] \in Digits \cup LowerLetters \cup {"-"}
                     THEN ascii[i] ELSE "-"]
    IN  StripDashes(CollapseDashes(kept))

-----------------------------------------------------------------------------
(* The row expander.  A row keeps the keys the checked properties read     *)
(* or that tell two rows of one slug apart; brand, image_url,              *)
(* surface_finish, stickered, release_date and the fixed defaults (rating, *)
(* notes, status, submitted_by) are left out.                              *)

\* wca_legal with a fault: the tags are compared as they come, not lower-cased
wca_legal_raw_tags(p) ==
    LET tags == Get(p, "tags", <<>>)
    IN  /\ ~\E i \in 1..Len(tags) : tags[i] \in ILLEGAL_TAGS
        /\ Get(p, "product_type", <<>>) \notin ILLEGAL_CUBE_TYPES

wca_legal(p) ==
    LET tags == [i \in 1..Len(Get(p, "tags", <<>>)) |-> Lower(Get(p, "tags", <<>>)[i])]
    IN  /\ ~\E i \in 1..Len(tags) : Lower(tags[i]) \in ILLEGAL_TAGS
        /\ Get(p, "product_type", <<>>) \notin ILLEGAL_CUBE_TYPES

discontinued(p) ==
    LET variants == Get(p, "variants", <<>>)
    IN  ~\E i \in 1..Len(variants) : Get(variants[i], "available", TRUE)

BaseRow(p) ==
    LET title  == Get(p, "title", <<>>)
        series == extract_series_name(title)
        tags   == [i \in 1..Len(Get(p, "tags", <<>>)) |-> Lower(Get(p, "tags", <<>>)[i])]
    IN  [series       |-> series,
         model        |-> Strip(Remove(title, series)),
         slug         |-> slugify(series \o Remove(title, series)),
         type         |-> Get(p, "product_type", <<>>),
         magnetic     |-> \E i \in 1..Len(tags) : tags[i] = <<"m", "a", "g", "n", "e", "t", "i", "c">>,
         maglev       |-> \E i \in 1..Len(tags) : Contains(tags[i], <<"m", "a", "g", "l", "e", "v">>),
         smart        |-> \E i \in 1..Len(tags) :
                              tags[i] = <<"b", "l", "u", "e", "t", "o", "o", "t", "h">>,
         wca_legal    |-> wca_legal(p),
         discontinued |-> discontinued(p),
         size         |-> detect_size_mm(p),
         weight       |-> 0,
         version_type |-> "Base",
         version_name |-> <<>>]

\* TrimRow with a fault: related_to is read after the slug was replaced
TrimRow_related_after_slug(base, v) ==
    LET slug == slugify(base.slug \o <<" ">> \o Get(v, "title", <<>>))
    IN  ("related_to" :> slug)
          @@ [base EXCEPT !.weight = Get(v, "grams", 0),
                          !.slug = slug,
                          !.version_type = "Trim",
                          !.version_name = Get(v, "title", <<>>)]

\* one turn of the loop over the variants
TrimRow(base, v) ==
    ("related_to" :> base.slug)
      @@ [base EXCEPT !.weight = Get(v, "grams", 0),
                      !.slug = slugify(base.slug \o <<" ">> \o Get(v, "title", <<>>)),
                      !.version_type = "Trim",
                      !.version_name = Get(v, "title", <<>>)]

normalize_product(p) ==
    LET base     == BaseRow(p)
        variants == Get(p, "variants", <<>>)
    IN  <<base>> \o [i \in 1..Len(variants) |-> TrimRow(base, variants[i])]

-----------------------------------------------------------------------------
(* The deduplicator.                                                       *)

\* DedupKey with a fault: the key the docstring names
DedupKey_docstring(r) == <<r.slug, r.version_type, r.version_name>>

DedupKey(r) == r.slug

\* DedupStep with a fault: last wins, at the place of the first
DedupStep_last_wins(unique, r) ==
    IF \E i \in 1..Len(unique) : DedupKey(unique[i]) = DedupKey(r)
    THEN [i \in 1..Len(unique) |->
             IF DedupKey(unique[i]) = DedupKey(r) THEN r ELSE unique[i]]
    ELSE Append(unique, r)

\* one turn of the loop; unique holds the OrderedDict's values in key order
DedupStep(unique, r) ==
    IF \E i \in 1..Len(unique) : DedupKey(unique[i]) = DedupKey(r)
    THEN unique
    ELSE Append(unique, r)

RECURSIVE DedupLoop(_, _)
DedupLoop(rows, unique) ==
    IF rows = <<>> THEN unique
    ELSE DedupLoop(Tail(rows), DedupStep(unique, rows[1]))

deduplicate_rows(rows) == DedupLoop(rows, <<>>)

-----------------------------------------------------------------------------
(* The Supabase writer.                                                    *)

DEFAULT_CHUNK == 500

Min(a, b) == IF a <= b THEN a ELSE b

\* Batch with a fault: the slice stops one row early
Batch_short(rows, s, c) == SubSeq(rows, s + 1, Min(s + c - 1, Len(rows)))

\* rows[start : start + chunk]
Batch(rows, s, c) == SubSeq(rows, s + 1, Min(s + c, Len(rows)))

\* upsert of one row on_conflict="slug": the row of that slug is replaced,
\* or the row is inserted
UpsertRow(t, r) ==
    IF \E i \in 1..Len(t) : t[i].slug = r.slug
    THEN [i \in 1..Len(t) |-> IF t[i].slug = r.slug THEN r ELSE t[i]]
    ELSE Append(t, r)

RECURSIVE Upsert(_, _)
Upsert(t, batch) ==
    IF batch = <<>> THEN t ELSE Upsert(UpsertRow(t, batch[1]), Tail(batch))

-----------------------------------------------------------------------------
(* main's source files.                                                    *)

\* the characters of a file name in code point order, on which str compares
CodePointOrder ==
    <<".", "0", "1", "2", "3", "4", "5", "6", "7", "8", "9",
      "A", "B", "C", "D", "E", "F", "G", "H", "I", "J", "K", "L", "M",
      "N", "O", "P", "Q", "R", "S", "T", "U", "V", "W", "X", "Y", "Z", "_",
      "a", "b", "c", "d", "e", "f", "g", "h", "i", "j", "k", "l", "m",
      "n", "o", "p", "q", "r", "s", "t", "u", "v", "w", "x", "y", "z">>

Ord(c) == CHOOSE i \in 1..Len(CodePointOrder) : CodePointOrder[i] = c

RECURSIVE StrLess(_, _)
\* a < b on str
StrLess(a, b) ==
    IF b = <<>> THEN FALSE
    ELSE IF a = <<>> THEN TRUE
    ELSE IF a[1] = b[1] THEN StrLess(Tail(a), Tail(b))
    ELSE Ord(a[1]) < Ord(b[1])

RECURSIVE Insert(_, _)
Insert(sortedSeq, x) ==
    IF sortedSeq = <<>> THEN <<x>>
    ELSE IF StrLess(x, sortedSeq[1]) THEN <<x>> \o sortedSeq
    ELSE <<sortedSeq[1]>> \o Insert(Tail(sortedSeq), x)

RECURSIVE SortLoop(_, _)
SortLoop(s, acc) ==
    IF s = <<>> THEN acc ELSE SortLoop(Tail(s), Insert(acc, s[1]))

\* sorted with a fault: the names stay in the order glob gave them
sorted_not(s) == s

\* sorted(...)
sorted(s) == SortLoop(s, <<>>)

ProductsSuffix ==
    <<"_", "p", "r", "o", "d", "u", "c", "t", "s", ".", "j", "s", "o", "n">>

\* whether a name matches *_products.json
GlobMatches(name) ==
    /\ Len(name) >= Len(ProductsSuffix)
    /\ SubSeq(name, Len(name) - Len(ProductsSuffix) + 1, Len(name)) = ProductsSuffix

\* the orders in which STORES_DIR.glob may yield the matching names
GlobOrders(d) ==
    LET names == {n \in DOMAIN d : GlobMatches(n)}
    IN  {g \in [1..Cardinality(names) -> names] :
            \A i, j \in 1..Cardinality(names) : i # j => g[i] # g[j]}

FileA == <<"a">> \o ProductsSuffix
FileB == <<"b">> \o ProductsSuffix
FileOther == <<"b", ".", "j", "s", "o", "n">>

StoreFiles == {FileA, FileB}

SeqsUpTo(S, n) == UNION {[1..k -> S] : k \in 0..n}

\* the listings the source files are filled with
Gan ==
    [title    |-> <<"g", "a", "n">>,
     tags     |-> << <<"M", "a", "g", "n", "e", "t", "i", "c">> >>,
     variants |-> << [title |-> <<"m">>, grams |-> 80, available |-> TRUE] >>]

GanM ==
    [title        |-> <<"G", "a", "n", " ", "M">>,
     product_type |-> <<>>,
     tags         |-> << <<"B", "l", "u", "e", "t", "o", "o", "t", "h">> >>,
     variants     |-> << [title |-> <<"x">>, available |-> FALSE] >>]

GanBundle ==
    [title        |-> <<"g", "a", "n">>,
     product_type |-> <<"A", "c", "c", "e", "s", "s", "o", "r", "i", "e", "s", " ",
                        "B", "u", "n", "d", "l", "e">>,
     tags         |-> <<>>,
     variants     |-> <<>>]

Catalogue == {Gan, GanM, GanBundle}

NoDump == [written |-> FALSE, rows |-> <<>>]

NoPrev == [pc |-> "none", rows |-> <<>>, table |-> <<>>, dump |-> NoDump]

Init ==
    /\ NoFetch
    /\ dir \in {d \in [StoreFiles \cup {FileOther} -> SeqsUpTo(Catalogue, MaxListings)] :
                   /\ Len(d[FileA]) + Len(d[FileB]) <= MaxListings
                   /\ d[FileOther] = <<Gan>>}
    /\ pc = "idle"
    /\ run = 0
    /\ files = <<>>
    /\ fi = 0
    /\ pi = 0
    /\ all_rows = <<>>
    /\ candidates = <<>>
    /\ chunk = DEFAULT_CHUNK
    /\ start = 0
    /\ calls = <<>>
    /\ table = <<>>
    /\ dump = NoDump
    /\ prev = NoPrev
    /\ prod = [title |-> <<>>]
    /\ result = <<>>

-----------------------------------------------------------------------------
(* main.                                                                   *)

\* main is started (again, on the same source files): all_rows = [] and
\* files = sorted(STORES_DIR.glob("*_products.json"))
StartMain ==
    /\ pc \in {"idle", "done", "empty", "raised"}
    /\ run < MaxRuns
    /\ \E g \in GlobOrders(dir) : files' = sorted(g)
    /\ prev' = IF run = 0 THEN NoPrev
               ELSE [pc |-> pc, rows |-> all_rows, table |-> table, dump |-> dump]
    /\ run' = run + 1
    /\ pc' = "scan"
    /\ fi' = 1
    /\ pi' = 1
    /\ all_rows' = <<>>
    /\ candidates' = <<>>
    /\ start' = 0
    /\ calls' = <<>>
    /\ UNCHANGED fetchVars
    /\ UNCHANGED <<dir, chunk, table, dump, prod, result>>

\* one turn of `for prod in products`
ScanListing ==
    /\ pc = "scan"
    /\ fi <= Len(files)
    /\ pi <= Len(dir[files[fi]])
    /\ LET p == dir[files[fi]][pi]
       IN  all_rows' = IF should_skip(p) THEN all_rows
                       ELSE all_rows \o normalize_product(p)
    /\ pi' = pi + 1
    /\ UNCHANGED fetchVars
    /\ UNCHANGED <<dir, pc, run, files, fi, candidates, chunk, start, calls,
                   table, dump, prev, prod, result>>

\* the file's listings are through: the next turn of `for fp in files`
NextFile ==
    /\ pc = "scan"
    /\ fi <= Len(files)
    /\ pi > Len(dir[files[fi]])
    /\ fi' = fi + 1
    /\ pi' = 1
    /\ UNCHANGED fetchVars
    /\ UNCHANGED <<dir, pc, run, files, all_rows, candidates, chunk, start,
                   calls, table, dump, prev, prod, result>>

\* `if not all_rows: return`
NothingFound ==
    /\ pc = "scan"
    /\ fi > Len(files)
    /\ all_rows = <<>>
    /\ pc' = "empty"
    /\ UNCHANGED fetchVars
    /\ UNCHANGED <<dir, run, files, fi, pi, all_rows, candidates, chunk, start,
                   calls, table, dump, prev, prod, result>>

\* all_rows = deduplicate_rows(all_rows), then write_rows_to_supabase is entered
Deduplicate ==
    /\ pc = "scan"
    /\ fi > Len(files)
    /\ all_rows # <<>>
    /\ candidates' = all_rows
    /\ all_rows' = deduplicate_rows(all_rows)
    /\ chunk' = DEFAULT_CHUNK
    /\ start' = 0
    /\ pc' = "upload"
    /\ UNCHANGED fetchVars
    /\ UNCHANGED <<dir, run, files, fi, pi, calls, table, dump, prev, prod, result>>

\* one turn of write_rows_to_supabase's loop whose upsert succeeds
UpsertBatch ==
    /\ pc = "upload"
    /\ start < Len(all_rows)
    /\ calls' = Append(calls, Batch(all_rows, start, chunk))
    /\ table' = Upsert(table, Batch(all_rows, start, chunk))
    /\ start' = start + chunk
    /\ UNCHANGED fetchVars
    /\ UNCHANGED <<dir, pc, run, files, fi, pi, all_rows, candidates, chunk,
                   dump, prev, prod, result>>

\* one turn whose upsert raises: nothing catches it, in write_rows_to_supabase
\* or in main
UpsertRaises ==
    /\ pc = "upload"
    /\ start < Len(all_rows)
    /\ pc' = "raised"
    /\ UNCHANGED fetchVars
    /\ UNCHANGED <<dir, run, files, fi, pi, all_rows, candidates, chunk, start,
                   calls, table, dump, prev, prod, result>>

\* write_rows_to_supabase returned to main: OUTPUT_FILE.write_text(...)
SaveDump ==
    /\ pc = "upload"
    /\ run > 0
    /\ start >= Len(all_rows)
    /\ dump' = [written |-> TRUE, rows |-> all_rows]
    /\ pc' = "done"
    /\ UNCHANGED fetchVars
    /\ UNCHANGED <<dir, run, files, fi, pi, all_rows, candidates, chunk, start,
                   calls, table, prev, prod, result>>

Next ==
    \/ StartMain
    \/ ScanListing
    \/ NextFile
    \/ NothingFound
    \/ Deduplicate
    \/ UpsertBatch
    \/ UpsertRaises
    \/ SaveDump

Spec == Init /\ [][Next]_vars

-----------------------------------------------------------------------------
(* Properties of main and the deduplicator, under Spec.                    *)

\* where main stands once deduplicate_rows has returned
AfterDedup == {"upload", "done", "raised"}

\* the rows main collects from one listing of the source files
Collected ==
    [l \in Catalogue |-> IF should_skip(l) THEN <<>> ELSE normalize_product(l)]

RECURSIVE RowsOf(_)
\* the rows main collects from a sequence of listings
RowsOf(listings) ==
    IF listings = <<>> THEN <<>>
    ELSE Collected[listings[1]] \o RowsOf(Tail(listings))

\* the indices of the rows that are the first of their slug
FirstOfSlug(rows) ==
    {i \in 1..Len(rows) : \A j \in 1..(i - 1) : rows[j].slug # rows[i].slug}

\* the rows at the indices I, in ascending index order
Subsequence(rows, I) ==
    [k \in 1..Cardinality(I) |->
        rows[CHOOSE i \in I : Cardinality({j \in I : j < i}) = k - 1]]

C4_RerunChangesNothing ==
    (run >= 2 /\ pc \in {"done", "empty"} /\ prev.pc \in {"done", "empty"}) =>
        /\ pc = prev.pc
        /\ all_rows = prev.rows
        /\ table = prev.table
        /\ dump = prev.dump

\* C4's case: both runs uploaded rows of both source files, the second onto
\* a table that held every slug already
C4_Witness ==
    /\ run = 2 /\ pc = "done" /\ prev.pc = "done"
    /\ dir[FileA] # <<>> /\ dir[FileB] # <<>>
    /\ Len(prev.table) >= 2
    /\ calls # <<>>

\* the claim's test on a listing: its product_type, compared without regard
\* to case, contains a skip-list entry
SkipListed(l) ==
    /\ "product_type" \in DOMAIN l
    /\ \E s \in SKIP_PRODUCT_TYPES :
       \E i \in 1..Len(l.product_type) :
          \A k \in 1..Len(s) :
             /\ i + k - 1 <= Len(l.product_type)
             /\ LowerChar(l.product_type[i + k - 1]) = LowerChar(s[k])

\* what a listing of the source files adds to the rows: nothing when it is
\* skip-listed, the rows of normalize_product otherwise
Contribution ==
    [l \in Catalogue |-> IF SkipListed(l) THEN <<>> ELSE normalize_product(l)]

RECURSIVE AcceptedRows(_)
AcceptedRows(listings) ==
    IF listings = <<>> THEN <<>>
    ELSE Contribution[listings[1]] \o AcceptedRows(Tail(listings))

RECURSIVE ListingsOf(_, _)
\* the listings of the first n files of fs
ListingsOf(fs, n) ==
    IF n = 0 THEN <<>> ELSE ListingsOf(fs, n - 1) \o dir[fs[n]]

\* the listings main has been through
Scanned ==
    IF fi > Len(files) THEN ListingsOf(files, Len(files))
    ELSE ListingsOf(files, fi - 1) \o SubSeq(dir[files[fi]], 1, pi - 1)

\* C6: a listing adds no row to the accumulated rows, and has none in the
\* final rows, exactly when its product_type contains a skip-list entry
\* without regard to case; a listing with an empty or missing product_type
\* is never skipped.
C6_SkipExactlyListedTypes ==
    /\ pc = "scan" => all_rows = AcceptedRows(Scanned)
    /\ pc \in AfterDedup =>
          {all_rows[i].slug : i \in 1..Len(all_rows)}
              = {AcceptedRows(Scanned)[i].slug : i \in 1..Len(AcceptedRows(Scanned))}

\* C6's case: a run finished on source files holding a skip-listed listing,
\* one with an empty and one with no product_type
C6_Witness ==
    /\ pc = "done"
    /\ \E f \in StoreFiles : \E i \in 1..Len(dir[f]) : SkipListed(dir[f][i])
    /\ \E f \in StoreFiles : \E i \in 1..Len(dir[f]) :
          "product_type" \notin DOMAIN dir[f][i]
    /\ \E f \in StoreFiles : \E i \in 1..Len(dir[f]) :
          "product_type" \in DOMAIN dir[f][i] /\ dir[f][i].product_type = <<>>

\* C8: when the upsert raises, main still writes the dump of the
\* deduplicated rows (and the rows in memory are unchanged).
C8_DumpSurvivesFailedUpsert ==
    pc = "raised" =>
        /\ dump = [written |-> TRUE, rows |-> all_rows]
        /\ all_rows = deduplicate_rows(candidates)

\* C12: in the deduplicated rows every Trim row's related_to is the slug of
\* a row of the output whose version_type is Base.
C12_TrimPointsAtBaseRow ==
    pc \in AfterDedup =>
        \A i \in 1..Len(all_rows) :
            all_rows[i].version_type = "Trim" =>
                \E j \in 1..Len(all_rows) :
                    /\ all_rows[j].slug = all_rows[i].related_to
                    /\ all_rows[j].version_type = "Base"

-----------------------------------------------------------------------------
(* normalize_product on its own: a listing is drawn, the function returns. *)

NoFiles == [f \in StoreFiles \cup {FileOther} |-> <<>>]

NormalizeTitles == {<<"g", "a", "n">>, <<"G", "a", "n", " ", "M">>}

NormalizeTypes ==
    {<<>>,
     <<"S", "m", "a", "r", "t", " ", "C", "u", "b", "e">>,
     <<"s", "m", "a", "r", "t", " ", "c", "u", "b", "e">>}

NormalizeTags ==
    {<<"B", "l", "u", "e", "t", "o", "o", "t", "h">>,
     <<"L", "E", "D">>,
     <<"m", "a", "g", "n", "e", "t", "i", "c">>,
     <<"M", "a", "g", "l", "e", "v", " ", "c", "o", "r", "e">>}

NormalizeVariants ==
    {[title |-> <<"m">>, grams |-> 80, available |-> TRUE],
     [title |-> <<"x">>, available |-> FALSE],
     [grams |-> 5]}

NormalizeInputs ==
    {[title |-> t, product_type |-> ty, tags |-> tg, variants |-> vs] :
        t \in NormalizeTitles, ty \in NormalizeTypes,
        tg \in SeqsUpTo(NormalizeTags, MaxTags),
        vs \in SeqsUpTo(NormalizeVariants, MaxVariants)}
    \cup {[title |-> t, tags |-> tg, variants |-> vs] :
        t \in NormalizeTitles,
        tg \in SeqsUpTo(NormalizeTags, MaxTags),
        vs \in SeqsUpTo(NormalizeVariants, MaxVariants)}
    \cup {[title |-> t, product_type |-> ty] :
        t \in NormalizeTitles, ty \in NormalizeTypes}

InitNormalize ==
    /\ NoFetch
    /\ prod \in NormalizeInputs
    /\ pc = "normalize"
    /\ result = <<>>
    /\ dir = NoFiles
    /\ run = 0
    /\ files = <<>>
    /\ fi = 0
    /\ pi = 0
    /\ all_rows = <<>>
    /\ candidates = <<>>
    /\ chunk = DEFAULT_CHUNK
    /\ start = 0
    /\ calls = <<>>
    /\ table = <<>>
    /\ dump = NoDump
    /\ prev = NoPrev

NormalizeReturns ==
    /\ pc = "normalize"
    /\ result' = normalize_product(prod)
    /\ pc' = "normalized"
    /\ UNCHANGED fetchVars
    /\ UNCHANGED <<dir, run, files, fi, pi, all_rows, candidates, chunk, start,
                   calls, table, dump, prev, prod>>

NextNormalize == NormalizeReturns

SpecNormalize == InitNormalize /\ [][NextNormalize]_vars

\* the variants of the listing handed to normalize_product
Variants == Get(prod, "variants", <<>>)

SameIgnoringCase(a, b) ==
    /\ Len(a) = Len(b)
    /\ \A k \in 1..Len(a) : LowerChar(a[k]) = LowerChar(b[k])

\* the claim's test on a listing: its type is an illegal type, or one of its
\* tags is an illegal tag without regard to case
Illegal(l) ==
    \/ "product_type" \in DOMAIN l /\ l.product_type \in ILLEGAL_CUBE_TYPES
    \/ \E i \in 1..Len(Get(l, "tags", <<>>)) :
       \E t \in ILLEGAL_TAGS : SameIgnoringCase(l.tags[i], t)

\* C5: every row of normalize_product, Base and Trim, has wca_legal false if
\* the listing's product_type is an illegal type or one of its tags is an
\* illegal tag without regard to case, and true otherwise.
C5_LegalityFromTypeAndTags ==
    pc = "normalized" =>
        \A i \in 1..Len(result) : result[i].wca_legal = ~Illegal(prod)

\* C5's case: a listing of a legal type with the tag Bluetooth and a variant
\* was expanded into rows that are not legal
C5_Witness ==
    /\ pc = "normalized"
    /\ Len(result) >= 2
    /\ Get(prod, "product_type", <<>>) \notin ILLEGAL_CUBE_TYPES
    /\ \E i \in 1..Len(Get(prod, "tags", <<>>)) :
          prod.tags[i] = <<"B", "l", "u", "e", "t", "o", "o", "t", "h">>
    /\ ~result[2].wca_legal

\* C7: the rows' discontinued flag is true if and only if the listing has
\* variants and none of them reports availability true; a listing without
\* variants is never marked discontinued.
C7_DiscontinuedIffNoneAvailable ==
    pc = "normalized" =>
        \A i \in 1..Len(result) :
            result[i].discontinued =
                (/\ Len(Variants) >= 1
                 /\ \A k \in 1..Len(Variants) : ~Get(Variants[k], "available", TRUE))

-----------------------------------------------------------------------------
(* write_rows_to_supabase on its own: rows and a chunk size are drawn, the *)
(* loop runs.                                                              *)

WriteRows == {BaseRow(Gan), TrimRow(BaseRow(Gan), Gan.variants[1])}

InitWrite ==
    /\ NoFetch
    /\ all_rows \in SeqsUpTo(WriteRows, MaxRows)
    /\ chunk \in 1..MaxChunk
    /\ pc = "upload"
    /\ start = 0
    /\ calls = <<>>
    /\ table = <<>>
    /\ run = 0
    /\ dir = NoFiles
    /\ files = <<>>
    /\ fi = 0
    /\ pi = 0
    /\ candidates = <<>>
    /\ dump = NoDump
    /\ prev = NoPrev
    /\ prod = [title |-> <<>>]
    /\ result = <<>>

\* range(0, len(rows), chunk) is through: the function returns
WriteReturns ==
    /\ pc = "upload"
    /\ run = 0
    /\ start >= Len(all_rows)
    /\ pc' = "written"
    /\ UNCHANGED fetchVars
    /\ UNCHANGED <<dir, run, files, fi, pi, all_rows, candidates, chunk, start,
                   calls, table, dump, prev, prod, result>>

NextWrite ==
    \/ UpsertBatch
    \/ UpsertRaises
    \/ WriteReturns

SpecWrite == InitWrite /\ [][NextWrite]_vars

RECURSIVE Concat(_)
\* the batches of a sequence of calls, one after the other
Concat(batches) ==
    IF batches = <<>> THEN <<>> ELSE batches[1] \o Concat(Tail(batches))

\* C9: each upsert call of write_rows_to_supabase carries at least one and at
\* most chunk rows, the batches in call order make up the rows handed in
\* (all of them once the function returns), the table is keyed on slug, and
\* no call is made for no rows.
C9_BatchesPartitionRows ==
    /\ \A k \in 1..Len(calls) : calls[k] # <<>> /\ Len(calls[k]) <= chunk
    /\ Concat(calls) = SubSeq(all_rows, 1, Min(start, Len(all_rows)))
    /\ pc = "written" => Concat(calls) = all_rows
    /\ all_rows = <<>> => calls = <<>>
    /\ \A i, j \in 1..Len(table) : i # j => table[i].slug # table[j].slug
    /\ {table[i].slug : i \in 1..Len(table)}
           = {Concat(calls)[i].slug : i \in 1..Len(Concat(calls))}

\* C9's case: the function returned after several calls, the last one with
\* fewer than chunk rows
C9_Witness ==
    /\ pc = "written"
    /\ Len(calls) >= 2
    /\ Len(calls[Len(calls)]) < chunk
    /\ Len(calls[1]) = chunk

-----------------------------------------------------------------------------
(* detect_size_mm on its own: a listing is drawn, the function returns.    *)

SizeTitles ==
    {<<"B", " ", "3", "x", "3">>,
     <<"B", " ", "4", "U+00D7", "4", " ", "M">>,
     <<"9", "X", "9">>,
     <<"c", "u", "b", "e">>}

SizeBodies ==
    {<<>>,
     <<"5", "6", ".", "5", "m", "m">>,
     <<"5", "7", "&nbsp;", "M", "M">>,
     <<"9", "m", "m">>,
     <<"1", "0", "0", "m", "m">>}

SizeTags == {<<"5", "5", " ", "m", "m">>}

SizeVariants == {[title |-> <<"6", "0", "m", "m">>]}

SizeInputs ==
    {[title |-> t, body_html |-> b, tags |-> tg, variants |-> vs] :
        t \in SizeTitles, b \in SizeBodies,
        tg \in SeqsUpTo(SizeTags, MaxTags),
        vs \in SeqsUpTo(SizeVariants, MaxVariants)}
    \cup {[title |-> t] : t \in SizeTitles}

InitSize ==
    /\ NoFetch
    /\ prod \in SizeInputs
    /\ pc = "detect"
    /\ result = 0
    /\ dir = NoFiles
    /\ run = 0
    /\ files = <<>>
    /\ fi = 0
    /\ pi = 0
    /\ all_rows = <<>>
    /\ candidates = <<>>
    /\ chunk = DEFAULT_CHUNK
    /\ start = 0
    /\ calls = <<>>
    /\ table = <<>>
    /\ dump = NoDump
    /\ prev = NoPrev

DetectReturns ==
    /\ pc = "detect"
    /\ result' = detect_size_mm(prod)
    /\ pc' = "detected"
    /\ UNCHANGED fetchVars
    /\ UNCHANGED <<dir, run, files, fi, pi, all_rows, candidates, chunk, start,
                   calls, table, dump, prev, prod>>

NextSize == DetectReturns

SpecSize == InitSize /\ [][NextSize]_vars

RECURSIVE DecimalValue(_, _, _)
\* the number the digits s[i..j] write
DecimalValue(s, i, j) ==
    IF j < i THEN 0 ELSE 10 * DecimalValue(s, i, j - 1) + DigitValue(s[j])

\* the whole numbers written in s: the spans of digits that no digit and no
\* decimal point precedes
Numerals(s) ==
    {x \in (1..Len(s)) \X (1..Len(s)) :
        /\ x[1] <= x[2]
        /\ \A k \in x[1]..x[2] : s[k] \in Digits
        /\ (x[1] = 1 \/ s[x[1] - 1] \notin (Digits \cup {"."}))}

\* the millimetre measurements written in s, in tenths: a number, with one
\* decimal or none, then optional whitespace, then mm
Measurements(s) ==
    {10 * DecimalValue(s, x[1], x[2]) :
        x \in {y \in Numerals(s) : MMTail(s, y[2] + 1)}}
    \cup
    {10 * DecimalValue(s, x[1], x[2]) + DigitValue(s[x[2] + 2]) :
        x \in {y \in Numerals(s) :
                  /\ y[2] + 2 <= Len(s)
                  /\ s[y[2] + 1] = "."
                  /\ s[y[2] + 2] \in Digits
                  /\ MMTail(s, y[2] + 3)}}

\* the size-table value of the leftmost single-digit NxN pattern of the title,
\* if the title has one and its key is in the table
TitleTableValues(title) ==
    LET hits == {i \in 1..Len(title) : NXNAt(title, i)}
        n    == CHOOSE i \in hits : \A j \in hits : i <= j
        key  == <<title[n], "x", title[n + 2]>>
    IN  IF hits # {} /\ key \in DOMAIN DEFAULT_SIZE_MM
        THEN {DEFAULT_SIZE_MM[key]} ELSE {}

\* C10: detect_size_mm returns a millimetre measurement written in the title,
\* the unescaped description, the tags or the variant titles if there is
\* one, whatever the title; otherwise the size-table value of the title's
\* single-digit NxN pattern if its key is in the table; otherwise 56.0.
C10_SizePrecedence ==
    pc = "detected" =>
        LET M == Measurements(SizeText(prod))
            T == TitleTableValues(Get(prod, "title", <<>>))
        IN  IF M # {} THEN result \in M
            ELSE IF T # {} THEN result \in T
            ELSE result = 560

\* ---------------------------------------------------------------------
\* fetch_all_products and its spinner, run on their own
\* ---------------------------------------------------------------------

\* the products the store's pages are filled with
ProductA == [id |-> 1]
ProductB == [id |-> 2]
ProductC == [id |-> 3]

\* what requests.get / raise_for_status / resp.json can come back with for
\* one page: a JSON object with products, one with an empty list, one without
\* the key, a requests.RequestException, or any other exception
Responses ==
    { [raises |-> "none", json |-> [products |-> <<ProductA>>]],
      [raises |-> "none", json |-> [products |-> <<ProductB, ProductC>>]],
      [raises |-> "none", json |-> [products |-> <<>>]],
      [raises |-> "none", json |-> [errors |-> <<>>]],
      [raises |-> "RequestException", json |-> [errors |-> <<>>]],
      [raises |-> "Exception", json |-> [errors |-> <<>>]] }

\* the answer to requests.get(base, params={..., "page": page}): the store
\* has nothing past its last page
Response(page) ==
    IF page <= Len(server) THEN server[page]
    ELSE [raises |-> "none", json |-> [products |-> <<>>]]

\* chunk = resp.json().get("products", [])
ChunkOf(resp) == Get(resp.json, "products", <<>>)

\* products.extend(chunk) with a fault: the chunk replaces the list
Extend_replaces(list, more) == more

\* products.extend(chunk)
Extend(list, more) == list \o more

\* the state when start_spinner has returned and the loop is about to start
InitFetch ==
    /\ dir = NoFiles
    /\ pc = "fetching"
    /\ run = 0
    /\ files = <<>>
    /\ fi = 1
    /\ pi = 1
    /\ all_rows = <<>>
    /\ candidates = 0
    /\ chunk = DEFAULT_CHUNK
    /\ start = 1
    /\ calls = <<>>
    /\ table = <<>>
    /\ dump = NoDump
    /\ prev = NoPrev
    /\ prod = [title |-> <<>>]
    /\ result = <<>>
    /\ server \in SeqsUpTo(Responses, MaxPages)
    /\ page_ref = 1
    /\ products = <<>>
    /\ requested = <<>>
    /\ stop_event = FALSE
    /\ spin = "check"
    /\ shown = 0

\* what no step of the fetch touches
restVars == <<dir, run, files, fi, pi, all_rows, candidates, chunk, start,
              calls, table, dump, prev, prod, server>>

\* one turn of the loop with a non-empty chunk: extend, next page, sleep
FetchChunk ==
    /\ pc = "fetching"
    /\ Response(page_ref).raises = "none"
    /\ ChunkOf(Response(page_ref)) # <<>>
    /\ requested' = Append(requested, page_ref)
    /\ products' = Extend(products, ChunkOf(Response(page_ref)))
    /\ page_ref' = page_ref + 1
    /\ UNCHANGED <<pc, result, stop_event, spin, shown>>
    /\ UNCHANGED restVars

\* the turn that gets an empty chunk: break, finally, return products
FetchEmpty ==
    /\ pc = "fetching"
    /\ Response(page_ref).raises = "none"
    /\ ChunkOf(Response(page_ref)) = <<>>
    /\ requested' = Append(requested, page_ref)
    /\ stop_event' = TRUE
    /\ result' = products
    /\ pc' = "fetched"
    /\ UNCHANGED <<page_ref, products, spin, shown>>
    /\ UNCHANGED restVars

\* the turn whose request raises requests.RequestException: the handler sets
\* the event, reports and breaks; finally; return products
FetchRequestError ==
    /\ pc = "fetching"
    /\ Response(page_ref).raises = "RequestException"
    /\ requested' = Append(requested, page_ref)
    /\ stop_event' = TRUE
    /\ result' = products
    /\ pc' = "fetched"
    /\ UNCHANGED <<page_ref, products, spin, shown>>
    /\ UNCHANGED restVars

\* the turn that raises anything else: only the finally clause runs and the
\* exception leaves the function
FetchOtherError ==
    /\ pc = "fetching"
    /\ Response(page_ref).raises = "Exception"
    /\ requested' = Append(requested, page_ref)
    /\ stop_event' = TRUE
    /\ pc' = "fetch_raised"
    /\ UNCHANGED <<page_ref, products, result, spin, shown>>
    /\ UNCHANGED restVars

\* _spin: `while not stop_event.is_set()` finds the event clear
SpinCheck ==
    /\ spin = "check"
    /\ ~stop_event
    /\ spin' = "frame"
    /\ UNCHANGED <<pc, result, page_ref, products, requested, stop_event, shown>>
    /\ UNCHANGED restVars

\* _spin: the loop body writes a frame with the current page and sleeps
SpinFrame ==
    /\ spin = "frame"
    /\ shown' = page_ref
    /\ spin' = "check"
    /\ UNCHANGED <<pc, result, page_ref, products, requested, stop_event>>
    /\ UNCHANGED restVars

\* _spin: the loop test finds the event set; the line is cleared and the
\* thread ends
SpinExit ==
    /\ spin = "check"
    /\ stop_event
    /\ spin' = "stopped"
    /\ UNCHANGED <<pc, result, page_ref, products, requested, stop_event, shown>>
    /\ UNCHANGED restVars

Fetch == FetchChunk \/ FetchEmpty \/ FetchRequestError \/ FetchOtherError

Spinner == SpinCheck \/ SpinFrame \/ SpinExit

NextFetch ==
    \/ FetchChunk
    \/ FetchEmpty
    \/ FetchRequestError
    \/ FetchOtherError
    \/ SpinCheck
    \/ SpinFrame
    \/ SpinExit

\* every request returns or raises within its timeout and the sleeps end, so
\* the loop keeps turning; the spinner thread keeps being scheduled
SpecFetch ==
    InitFetch /\ [][NextFetch]_vars /\ WF_vars(Fetch) /\ WF_vars(Spinner)

\* page k is answered with at least one product
GoodPage(k) ==
    /\ k <= Len(server)
    /\ server[k].raises = "none"
    /\ "products" \in DOMAIN server[k].json
    /\ server[k].json.products # <<>>

\* the first page that is not answered with products
StopPage ==
    CHOOSE k \in 1..(Len(server) + 1) :
        ~GoodPage(k) /\ \A j \in 1..(k - 1) : GoodPage(j)

\* the function has been left, by return or by an exception
Exited == pc \in {"fetched", "fetch_raised"}

\* C11: the pages requested are 1, 2, 3, ... in order and none past the
\* first page that is empty or fails; the function returns only at an empty
\* page or a request error, and then it returns the non-empty pages before
\* that page concatenated in page order; however the function is left the
\* stop event is set, and once it is set the spinner thread stops.
C11_PagesInOrderAndSpinnerStops ==
    /\ [](/\ requested = [i \in 1..Len(requested) |-> i]
          /\ Len(requested) <= StopPage
          /\ page_ref = Len(requested) + (IF Exited THEN 0 ELSE 1))
    /\ [](pc = "fetched" =>
            /\ Len(requested) = StopPage
            /\ Response(StopPage).raises \in {"none", "RequestException"}
            /\ result = Concat([j \in 1..(StopPage - 1) |->
                                    server[j].json.products]))
    /\ [](pc = "fetch_raised" =>
            /\ Len(requested) = StopPage
            /\ Response(StopPage).raises = "Exception")
    /\ [](Exited => stop_event)
    /\ [](~Exited => ~stop_event)
    /\ (stop_event ~> spin = "stopped")

\* two pages of products were fetched, the third request raised a request
\* error, the function returned and the spinner, which had shown page 2,
\* has stopped
C11_Witness ==
    /\ pc = "fetched"
    /\ requested = <<1, 2, 3>>
    /\ Len(server) >= 3
    /\ server[3].raises = "RequestException"
    /\ Len(result) >= 2
    /\ shown >= 2
    /\ spin = "stopped"

=============================================================================
